---- MODULE Spec2Model ----
(***************************************************************************)
(* A model of the codeleaf-ai backend (src/backend/app.py): the language   *)
(* detector, the power profile probe, the generic timing loop              *)
(* (universal_emissions_tracker), the execution harness                    *)
(* (run_code_and_track_emissions) and the two Flask endpoints /codegen and *)
(* /optimize.                                                              *)
(*                                                                         *)
(* Representation.  A Python str is a sequence of one-character strings,   *)
(* so that `in`, lower(), strip() and replace() are computed and not       *)
(* assumed.  A JSON value is a record [t, v] with t one of "str", "none"   *)
(* (null), "num" (a non-zero number) and "absent" (the key is not in the   *)
(* body).  A float is an exact rational <<n, d>> in lowest terms with      *)
(* d > 0; elapsed wall times are whole seconds.                            *)
(***************************************************************************)
EXTENDS Integers, Sequences, FiniteSets, TLC

VARIABLES
    dl_code,        \* SpecDetect: the text handed to detect_language
    dl_result,      \* SpecDetect: what detect_language returned ("" before the call)
    host,           \* what the power profile probe reads: platform, CPUs, GPUtil
    fs,             \* the paths that exist on disk
    tpc,            \* universal_emissions_tracker: position
    t_exec,         \* its executable (an argument list)
    num_runs,       \* its num_runs
    t_watts,        \* the triple get_system_wattage returned (line 87)
    t_i,            \* the number of loop iterations begun
    emissions_list, \* its emissions_list
    t_elapsed,      \* the elapsed time of each sample of emissions_list
    t_raised,       \* whether subprocess.run raised inside the loop
    t_ret,          \* the value it returned
    hpc,            \* run_code_and_track_emissions: position
    h_code,         \* its code argument (a JSON value)
    h_params,       \* its test_params: "empty" ({}), "named" (a dict with
                    \* function_name and data_size) or "none" (None)
    h_lang,         \* its language argument (a JSON value)
    temp_file,      \* its temp_file (<<>> is None)
    exec_file,      \* its exec_file (<<>> is None)
    h_pending,      \* the value a return inside the try block has handed to finally
    h_ret,          \* how the call ended: [kind, val], kind "value" or "raised"
    created,        \* the paths this call has created on disk
    compiled,       \* the compile step: "no", "ok", "failed" (non-zero exit), "raised"
    h_runs,         \* how many times this call has executed the snippet
    h_fault,        \* the failure inside the try block, "none" without one
    client,         \* the inference client: "set" or "none" (HF_TOKEN unset)
    spc,            \* the request handler: position
    req,            \* the request: [endpoint, body, field, language], body being
                    \* the kind of its body and field the JSON value of
                    \* "prompt" (/codegen) or "code" (/optimize)
    language,       \* the handler's language
    infer,          \* how client.chat_completion ended, "none" before it
    llm_co2_kg,     \* the handler's llm_co2_kg
    calls,          \* the harness calls of this request that have ended
    response,       \* the response: [status, error, co2]
    n_infer,        \* how many times the request has called client.chat_completion
    c_pc,           \* SpecConcurrent: the position of each in-flight harness call
    c_lang,         \* the language of each
    c_temp,         \* the temp_file of each (<<>> is None)
    c_exec,         \* the exec_file of each (<<>> is None)
    c_runs,         \* the executions of the snippet each has begun
    c_ret           \* how each ended: "none" (not yet), "value" or "raised"

detect_vars == <<dl_code, dl_result>>
env_vars == <<host, fs>>
tracker_vars == <<tpc, t_exec, num_runs, t_watts, t_i, emissions_list, t_elapsed,
                  t_raised, t_ret>>
harness_vars == <<hpc, h_code, h_params, h_lang, temp_file, exec_file, h_pending,
                  h_ret, created, compiled, h_runs, h_fault>>
conc_vars == <<c_pc, c_lang, c_temp, c_exec, c_runs, c_ret>>
server_vars == <<client, spc, req, language, infer, llm_co2_kg, calls, response,
                 n_infer>>

----------------------------------------------------------------------------
(* Python str operations on sequences of characters *)

\* The characters of the model are those of Latin-1 (U+0000 to U+00FF), the
\* ones a string of this module can hold.  Among them str.lower() changes A-Z
\* and the accented capitals below, each to the single character at the same
\* place of LowerCase.
Upper == <<"A","B","C","D","E","F","G","H","I","J","K","L","M",
           "N","O","P","Q","R","S","T","U","V","W","X","Y","Z",
           "À","Á","Â","Ã","Ä","Å","Æ","Ç","È","É","Ê","Ë","Ì",
           "Í","Î","Ï","Ð","Ñ","Ò","Ó","Ô","Õ","Ö","Ø","Ù","Ú",
           "Û","Ü","Ý","Þ">>
LowerCase == <<"a","b","c","d","e","f","g","h","i","j","k","l","m",
               "n","o","p","q","r","s","t","u","v","w","x","y","z",
               "à","á","â","ã","ä","å","æ","ç","è","é","ê","ë","ì",
               "í","î","ï","ð","ñ","ò","ó","ô","õ","ö","ø","ù","ú",
               "û","ü","ý","þ">>

\* str.lower() on one character
LowerChar(ch) ==
    IF \E i \in 1..Len(Upper) : Upper[i] = ch
    THEN LowerCase[CHOOSE i \in 1..Len(Upper) : Upper[i] = ch]
    ELSE ch

\* str.lower()
Lower(s) == [i \in 1..Len(s) |-> LowerChar(s[i])]

\* kw in s
Contains(s, kw) ==
    \E i \in 1..(Len(s) - Len(kw) + 1) : SubSeq(s, i, i + Len(kw) - 1) = kw

\* the characters c with c.isspace(), which str.strip() drops: space, \n, \t,
\* \r, \f, then U+000B (vertical tab), U+001C to U+001F (the separators),
\* U+0085 (next line) and U+00A0 (no-break space)
VerticalTab == ""
Whitespace == {" ", "\n", "\t", "\r", "\f",
               VerticalTab, "", "", "", "", "", " "}

\* str.strip(): drop leading and trailing whitespace
Strip(s) ==
    LET keep == {i \in 1..Len(s) : s[i] \notin Whitespace}
    IN  IF keep = {} THEN <<>>
        ELSE LET lo == CHOOSE i \in keep : \A j \in keep : i <= j
                 hi == CHOOSE i \in keep : \A j \in keep : j <= i
             IN  SubSeq(s, lo, hi)

\* str.replace(old, new): every non-overlapping occurrence, left to right
RECURSIVE Replace(_, _, _)
Replace(s, old, new) ==
    IF Len(s) < Len(old) \/ old = <<>> THEN s
    ELSE IF SubSeq(s, 1, Len(old)) = old
         THEN new \o Replace(SubSeq(s, Len(old) + 1, Len(s)), old, new)
         ELSE <<s[1]>> \o Replace(Tail(s), old, new)

----------------------------------------------------------------------------
(* JSON values *)

JStr(s) == [t |-> "str", v |-> s]
JNone == [t |-> "none", v |-> <<>>]
JNum == [t |-> "num", v |-> <<>>]
Absent == [t |-> "absent", v |-> <<>>]

\* data.get(key, ""): an absent key reads as the empty string
Get(x) == IF x = Absent THEN JStr(<<>>) ELSE x

\* Python truthiness of a JSON value
Truthy(x) == \/ x.t = "str" /\ x.v # <<>>
             \/ x.t = "num"

IsStr(x) == x.t = "str"

----------------------------------------------------------------------------
(* detect_language *)

KwInclude == <<"#","i","n","c","l","u","d","e">>
KwIntMain == <<"i","n","t"," ","m","a","i","n">>
KwPrintf == <<"p","r","i","n","t","f">>
KwPublicClass == <<"p","u","b","l","i","c"," ","c","l","a","s","s">>
KwConsoleLog == <<"c","o","n","s","o","l","e",".","l","o","g">>
KwFunction == <<"f","u","n","c","t","i","o","n">>
KwSelect == <<"s","e","l","e","c","t">>
KwFrom == <<"f","r","o","m">>
KwWhere == <<"w","h","e","r","e">>

LangC == <<"c">>
LangCpp == <<"c","p","p">>
LangJava == <<"j","a","v","a">>
LangJavascript == <<"j","a","v","a","s","c","r","i","p","t">>
LangSql == <<"s","q","l">>
LangPython == <<"p","y","t","h","o","n">>

CKeywords == {KwInclude, KwIntMain, KwPrintf}
JsKeywords == {KwConsoleLog, KwFunction}
SqlKeywords == {KwSelect, KwFrom, KwWhere}

\* detect_language without code.lower(): the keywords are matched as written
DetectBranchCaseSensitive(code) ==
    IF \E kw \in {KwInclude, KwIntMain, KwPrintf} : Contains(code, kw) THEN "c"
    ELSE IF Contains(code, KwPublicClass) THEN "java"
    ELSE IF \E kw \in {KwConsoleLog, KwFunction} : Contains(code, kw) THEN "javascript"
    ELSE IF \E kw \in {KwSelect, KwFrom, KwWhere} : Contains(code, kw) THEN "sql"
    ELSE "default"

\* the branch detect_language takes on a str code; "default" is the last elif
\* and the final return, both of which give "python"
DetectBranch(code) ==
    LET code_lower == Lower(code)
    IN  IF \E kw \in CKeywords : Contains(code_lower, kw) THEN "c"
        ELSE IF Contains(code_lower, KwPublicClass) THEN "java"
        ELSE IF \E kw \in JsKeywords : Contains(code_lower, kw) THEN "javascript"
        ELSE IF \E kw \in SqlKeywords : Contains(code_lower, kw) THEN "sql"
        ELSE "default"

\* detect_language raises AttributeError: code.lower() on a non-str, or
\* prompt.strip() on a non-str, which is evaluated only when the last elif is
\* reached and code.strip() is empty
DetectRaises(code, prompt) ==
    \/ ~IsStr(code)
    \/ /\ DetectBranch(code.v) = "default"
       /\ Strip(code.v) = <<>>
       /\ ~IsStr(prompt)

\* detect_language(code, prompt) when it does not raise
detect_language(code, prompt) ==
    LET b == DetectBranch(code.v)
    IN  CASE b = "c" -> LangC
          [] b = "java" -> LangJava
          [] b = "javascript" -> LangJavascript
          [] b = "sql" -> LangSql
          [] OTHER -> LangPython

----------------------------------------------------------------------------
(* SpecDetect: detect_language applied to bounded inputs *)

MaxFrags == 2

Frags == {
    KwInclude,
    <<"i","n","t"," ">>,
    <<"m","a","i","n">>,
    KwPrintf,
    <<"P","u","b","l","i","c"," ","C","l","a","s","s">>,
    KwConsoleLog,
    KwFunction,
    KwSelect,
    <<"F","R","O","M">>,
    KwWhere,
    <<"x","=","1">>,
    <<" ">> }

RECURSIVE Texts(_)
Texts(n) ==
    IF n = 0 THEN {<<>>}
    ELSE Texts(n - 1) \cup {t \o f : t \in Texts(n - 1), f \in Frags}

DetectIdle ==
    /\ dl_code = <<>>
    /\ dl_result = <<>>

DetectInit ==
    /\ dl_code \in Texts(MaxFrags)
    /\ dl_result = <<>>

DetectLanguage ==
    /\ dl_result = <<>>
    /\ ~DetectRaises(JStr(dl_code), JStr(<<>>))
    /\ dl_result' = detect_language(JStr(dl_code), JStr(<<>>))
    /\ UNCHANGED dl_code

----------------------------------------------------------------------------
(* Floats as exact rationals <<n, d>>, d > 0, in lowest terms *)

RECURSIVE GCD(_, _)
GCD(a, b) == IF b = 0 THEN a ELSE GCD(b, a % b)

Abs(n) == IF n < 0 THEN -n ELSE n

Rat(n, d) ==
    LET g == GCD(Abs(n), d)
    IN  IF n = 0 THEN <<0, 1>> ELSE <<n \div g, d \div g>>

Zero == <<0, 1>>
RInt(n) == <<n, 1>>
LCM(a, b) == (a \div GCD(a, b)) * b
RAdd(x, y) ==
    LET d == LCM(x[2], y[2])
    IN  Rat(x[1] * (d \div x[2]) + y[1] * (d \div y[2]), d)
RMul(x, y) ==
    LET g1 == GCD(Abs(x[1]), y[2])
        g2 == GCD(Abs(y[1]), x[2])
    IN  IF x[1] = 0 \/ y[1] = 0 THEN Zero
        ELSE Rat((x[1] \div g1) * (y[1] \div g2), (x[2] \div g2) * (y[2] \div g1))
RDivInt(x, k) == RMul(x, <<1, k>>)
RLeq(x, y) ==
    LET d == LCM(x[2], y[2])
    IN  x[1] * (d \div x[2]) <= y[1] * (d \div y[2])
RLess(x, y) == RLeq(x, y) /\ x # y

RECURSIVE RSum(_)
RSum(xs) == IF xs = <<>> THEN Zero ELSE RAdd(xs[1], RSum(Tail(xs)))

----------------------------------------------------------------------------
(* get_system_wattage *)

CpuPowerDefault == 45
CpuPowerWindows == 65
\* gpu.memoryTotal * 0.5
GpuWattsPerMemory == <<1, 2>>

MaxCpus == 2
MaxGpuMemory == 2

\* what GPUtil does on this host: "absent" (the import failed, GPUtil = None),
\* "raises" (getGPUs() raises), or "ok" with the memoryTotal of each GPU
GpuLists == {<<>>} \cup {<<m>> : m \in 1..MaxGpuMemory}
               \cup {<<1, m>> : m \in 1..MaxGpuMemory}

Hosts ==
    [platform : {"Linux", "Windows"}, cpu_count : 1..MaxCpus,
     gputil : {"absent", "raises"}, gpus : {<<>>}]
    \cup
    [platform : {"Linux", "Windows"}, cpu_count : 1..MaxCpus,
     gputil : {"ok"}, gpus : GpuLists]

\* <<cpu_count, cpu_power_w, gpu_power_w>>; an exception of getGPUs() is passed
\* over after cpu_power_w has been set
get_system_wattage(h) ==
    LET cpu_power_w == IF h.platform = "Windows" THEN CpuPowerWindows
                       ELSE CpuPowerDefault
        gpu_power_w ==
            IF h.gputil = "ok" /\ h.gpus # <<>>
            THEN RSum([i \in 1..Len(h.gpus) |->
                         RMul(RInt(h.gpus[i]), GpuWattsPerMemory)])
            ELSE Zero
    IN  <<h.cpu_count, cpu_power_w, gpu_power_w>>

----------------------------------------------------------------------------
(* universal_emissions_tracker *)

SecondsPerHour == 3600
\* 0.475 kg CO2 per kWh
GridIntensity == <<19, 40>>
DefaultNumRuns == 3

MaxRuns == 3
MaxElapsed == 2

\* the sample with cpu_count left out of the total watts
Co2SamplePerCpu(w, elapsed) ==
    RMul(RDivInt(RMul(RAdd(RInt(w[2]), w[3]), RInt(elapsed)), SecondsPerHour),
         GridIntensity)

\* lines 93-94: one sample from the wattage triple and the elapsed seconds
Co2Sample(w, elapsed) ==
    LET energy_kwh == RDivInt(RMul(RAdd(RInt(w[2] * w[1]), w[3]), RInt(elapsed)),
                              SecondsPerHour)
    IN  RMul(energy_kwh, GridIntensity)

\* statistics.mean
Mean(xs) == RDivInt(RSum(xs), Len(xs))

\* the sum of the samples in place of their mean
TrackerResultSum(xs) == IF xs # <<>> THEN RSum(xs) ELSE Zero

\* line 99
TrackerResult(xs) == IF xs # <<>> THEN Mean(xs) ELSE Zero

NoCommand == <<>>
EchoOk == <<<<"e","c","h","o">>, <<"o","k">>>>

TrackerIdle ==
    /\ tpc = "idle"
    /\ t_exec = NoCommand
    /\ num_runs = 0
    /\ t_watts = <<0, 0, Zero>>
    /\ t_i = 0
    /\ emissions_list = <<>>
    /\ t_elapsed = <<>>
    /\ t_raised = FALSE
    /\ t_ret = Zero

\* lines 86-87
TrackerStart ==
    /\ tpc = "start"
    /\ emissions_list' = <<>>
    /\ t_elapsed' = <<>>
    /\ t_i' = 0
    /\ t_raised' = FALSE
    /\ t_watts' = get_system_wattage(host)
    /\ tpc' = "loop"
    /\ UNCHANGED <<t_exec, num_runs, t_ret>>

\* subprocess.run(..., timeout=300) of the snippet (lines 91 and 138) and the
\* compiler's timeout=120 (line 150), in seconds
RunTimeout == 300
CompileTimeout == 120

\* the loop running once more than num_runs
TrackerRunOnceMore ==
    /\ tpc = "loop"
    /\ t_i <= num_runs
    /\ t_i' = t_i + 1
    /\ \E raised \in BOOLEAN, elapsed \in 1..MaxElapsed :
         IF raised
         THEN /\ t_raised' = TRUE
              /\ t_ret' = Zero
              /\ tpc' = "done"
              /\ UNCHANGED <<emissions_list, t_elapsed>>
         ELSE /\ emissions_list' = Append(emissions_list, Co2Sample(t_watts, elapsed))
              /\ t_elapsed' = Append(t_elapsed, elapsed)
              /\ UNCHANGED <<t_raised, t_ret, tpc>>
    /\ UNCHANGED <<t_exec, num_runs, t_watts>>

\* lines 89-98: one iteration.  subprocess.run either returns after `elapsed`
\* seconds (whatever the exit code of the command) or raises (TimeoutExpired
\* after 300 s, FileNotFoundError, PermissionError); the except clause around
\* the whole loop then returns 0.0
TrackerRun ==
    /\ tpc = "loop"
    /\ t_i < num_runs
    /\ t_i' = t_i + 1
    /\ \E raised \in BOOLEAN, elapsed \in 1..MaxElapsed :
         IF raised
         THEN /\ t_raised' = TRUE
              /\ t_ret' = Zero
              /\ tpc' = "done"
              /\ UNCHANGED <<emissions_list, t_elapsed>>
         ELSE /\ emissions_list' = Append(emissions_list, Co2Sample(t_watts, elapsed))
              /\ t_elapsed' = Append(t_elapsed, elapsed)
              /\ UNCHANGED <<t_raised, t_ret, tpc>>
    /\ UNCHANGED <<t_exec, num_runs, t_watts>>

\* line 99, once range(num_runs) is exhausted
TrackerReturn ==
    /\ tpc = "loop"
    /\ t_i >= num_runs
    /\ t_ret' = TrackerResult(emissions_list)
    /\ tpc' = "done"
    /\ UNCHANGED <<t_exec, num_runs, t_watts, t_i, emissions_list, t_elapsed, t_raised>>

TrackerStep == TrackerStart \/ TrackerRun \/ TrackerReturn

----------------------------------------------------------------------------
(* run_code_and_track_emissions *)

MaxNames == 2
MaxEmissions == 2

NameChars == <<"a", "b", "c", "d">>
\* the random part of a name tempfile generates
Names == {<<NameChars[i]>> : i \in 1..MaxNames}
\* tempfile.gettempdir() and the prefix of the name
TempDir == <<"/","t","/">>

SuffixPy == <<".","p","y">>
SuffixC == <<".","c">>
SuffixCpp == <<".","c","p","p">>

\* tempfile.NamedTemporaryFile(suffix=...).name: a path that does not exist yet
TempPaths(suffix) == {TempDir \o n \o suffix : n \in Names} \ fs

NoPath == <<>>
NoReturn == [kind |-> "none", val |-> Zero]
Returned(v) == [kind |-> "value", val |-> v]
Raised == [kind |-> "raised", val |-> Zero]

HarnessIdle ==
    /\ hpc = "idle"
    /\ h_code = JStr(<<>>)
    /\ h_params = "empty"
    /\ h_lang = JStr(<<>>)
    /\ temp_file = NoPath
    /\ exec_file = NoPath
    /\ h_pending = Zero
    /\ h_ret = NoReturn
    /\ created = {}
    /\ compiled = "no"
    /\ h_runs = 0
    /\ h_fault = "none"

\* the except clause (lines 157-159): the exception becomes the result 0.0 and
\* control passes to the finally block
Caught(fault) ==
    /\ h_pending' = Zero
    /\ hpc' = "finally_temp"
    /\ h_fault' = fault

\* lines 102-109, 142, 155-156: the blank check, language.lower() and the
\* dispatch on the language
HarnessEntry ==
    /\ hpc = "entry"
    /\ IF ~IsStr(h_code)
       THEN \* code.strip() is outside the try block
            /\ h_ret' = Raised
            /\ hpc' = "done"
            /\ UNCHANGED <<h_pending, h_fault, tracker_vars>>
       ELSE IF Strip(h_code.v) = <<>>
       THEN /\ h_ret' = Returned(Zero)
            /\ hpc' = "done"
            /\ UNCHANGED <<h_pending, h_fault, tracker_vars>>
       ELSE IF ~IsStr(h_lang)
       THEN Caught("language") /\ UNCHANGED <<h_ret, tracker_vars>>
       ELSE IF Lower(h_lang.v) = LangPython
       THEN \* test_params.get(...) on None raises
            IF h_params = "none"
            THEN Caught("test_params") /\ UNCHANGED <<h_ret, tracker_vars>>
            ELSE hpc' = "py_write" /\ UNCHANGED <<h_pending, h_ret, h_fault, tracker_vars>>
       ELSE IF Lower(h_lang.v) \in {LangC, LangCpp}
       THEN hpc' = "c_write" /\ UNCHANGED <<h_pending, h_ret, h_fault, tracker_vars>>
       ELSE \* universal_emissions_tracker(["echo", "ok"])
            /\ hpc' = "tracking"
            /\ tpc' = "start"
            /\ t_exec' = EchoOk
            /\ num_runs' = DefaultNumRuns
            /\ UNCHANGED <<h_pending, h_ret, h_fault, t_watts, t_i, emissions_list,
                           t_elapsed, t_raised, t_ret>>
    /\ UNCHANGED <<h_code, h_params, h_lang, temp_file, exec_file, created,
                   compiled, h_runs, env_vars>>

\* a `with tempfile.NamedTemporaryFile(..., delete=False) as f` block: creating
\* the file may raise (nothing exists, temp_file stays None); write, flush or
\* close may raise after temp_file was set and the file exists; or all succeed
WriteTemp(suffix, next) ==
    \E outcome \in {"create_raises", "write_raises", "ok"} :
      IF outcome = "create_raises" \/ TempPaths(suffix) = {}
      THEN Caught("create") /\ UNCHANGED <<temp_file, created, fs>>
      ELSE \E p \in TempPaths(suffix) :
             /\ temp_file' = p
             /\ fs' = fs \cup {p}
             /\ created' = created \cup {p}
             /\ IF outcome = "write_raises" THEN Caught("write")
                ELSE hpc' = next /\ UNCHANGED <<h_pending, h_fault>>

\* lines 110-134
PyWrite ==
    /\ hpc = "py_write"
    /\ WriteTemp(SuffixPy, "py_run")
    /\ UNCHANGED <<h_code, h_params, h_lang, exec_file, h_ret, compiled, h_runs,
                   host, tracker_vars>>

\* lines 135-140: the codecarbon tracker is started (which may raise), the
\* script runs once under subprocess.run (which may raise TimeoutExpired), and
\* tracker.stop() gives None or a float, that codecarbon measured
PyRun ==
    /\ hpc = "py_run"
    /\ \E outcome \in {"tracker_raises", "run_raises", "ok"},
          none \in BOOLEAN, e \in 0..MaxEmissions :
         /\ h_runs' = IF outcome = "tracker_raises" THEN h_runs ELSE h_runs + 1
         /\ IF outcome = "ok"
            THEN /\ h_pending' = IF none \/ e = 0 THEN Zero ELSE Rat(e, 1000)
                 /\ hpc' = "finally_temp"
                 /\ UNCHANGED h_fault
            ELSE Caught(outcome)
    /\ UNCHANGED <<h_code, h_params, h_lang, temp_file, exec_file, h_ret, created,
                   compiled, env_vars, tracker_vars>>

\* lines 143-149.  clean_code changes only the text that is written to the
\* file, which the model does not keep.
CWrite ==
    /\ hpc = "c_write"
    /\ WriteTemp(IF Lower(h_lang.v) = LangC THEN SuffixC ELSE SuffixCpp, "c_named")
    /\ UNCHANGED <<h_code, h_params, h_lang, exec_file, h_ret, compiled, h_runs,
                   host, tracker_vars>>

\* line 149
ExecPath(path, suffix) == Replace(path, suffix, <<>>)

\* lines 149-154: gcc raises (TimeoutExpired after 120 s, or gcc is missing)
\* and the except clause gives 0.0, or it exits non-zero and line 153 returns
\* 0.0, or it exits zero having written the binary; a gcc that is killed may
\* leave a partial output file
CCompile ==
    /\ hpc = "c_named"
    /\ LET suffix == IF Lower(h_lang.v) = LangC THEN SuffixC ELSE SuffixCpp
           bin == ExecPath(temp_file, suffix)
       IN  /\ exec_file' = bin
           /\ \E outcome \in {"raises", "raises_partial", "nonzero", "zero"} :
                /\ compiled' = CASE outcome = "zero" -> "ok"
                                 [] outcome = "nonzero" -> "failed"
                                 [] OTHER -> "raised"
                /\ IF outcome \in {"zero", "raises_partial"}
                   THEN fs' = fs \cup {bin} /\ created' = created \cup {bin}
                   ELSE UNCHANGED <<fs, created>>
                /\ IF outcome = "zero"
                   THEN /\ hpc' = "tracking"
                        /\ tpc' = "start"
                        /\ t_exec' = <<bin>>
                        /\ num_runs' = DefaultNumRuns
                        /\ UNCHANGED <<h_pending, h_fault, t_watts, t_i,
                                       emissions_list, t_elapsed, t_raised, t_ret>>
                   ELSE /\ Caught(IF outcome = "nonzero" THEN "compile_failed"
                                  ELSE "compile_raised")
                        /\ UNCHANGED tracker_vars
    /\ UNCHANGED <<h_code, h_params, h_lang, temp_file, h_ret, h_runs, host>>

\* lines 154 and 156: universal_emissions_tracker has returned
HarnessTracked ==
    /\ hpc = "tracking"
    /\ tpc = "done"
    /\ h_pending' = t_ret
    /\ h_runs' = t_i
    /\ h_fault' = IF t_raised THEN "loop_raised" ELSE h_fault
    /\ hpc' = "finally_temp"
    /\ tpc' = "idle"
    /\ UNCHANGED <<h_code, h_params, h_lang, temp_file, exec_file, h_ret, created,
                   compiled, env_vars, t_exec, num_runs, t_watts, t_i,
                   emissions_list, t_elapsed, t_raised, t_ret>>

\* lines 161-162: os.remove may raise OSError, and nothing catches it inside
\* the finally block: the call ends with that exception
FinallyTemp ==
    /\ hpc = "finally_temp"
    /\ IF temp_file # NoPath /\ temp_file \in fs
       THEN \E raises \in BOOLEAN :
              IF raises
              THEN h_ret' = Raised /\ hpc' = "done" /\ UNCHANGED fs
              ELSE fs' = fs \ {temp_file} /\ hpc' = "finally_exec" /\ UNCHANGED h_ret
       ELSE hpc' = "finally_exec" /\ UNCHANGED <<fs, h_ret>>
    /\ UNCHANGED <<h_code, h_params, h_lang, temp_file, exec_file, h_pending,
                   created, compiled, h_runs, h_fault, host, tracker_vars>>

\* lines 163-164, then the pending return
FinallyExec ==
    /\ hpc = "finally_exec"
    /\ hpc' = "done"
    /\ IF exec_file # NoPath /\ exec_file \in fs
       THEN \E raises \in BOOLEAN :
              IF raises
              THEN h_ret' = Raised /\ UNCHANGED fs
              ELSE fs' = fs \ {exec_file} /\ h_ret' = Returned(h_pending)
       ELSE h_ret' = Returned(h_pending) /\ UNCHANGED fs
    /\ UNCHANGED <<h_code, h_params, h_lang, temp_file, exec_file, h_pending,
                   created, compiled, h_runs, h_fault, host, tracker_vars>>

----------------------------------------------------------------------------
(* Concurrent calls of run_code_and_track_emissions: the requests the server's
   threads handle at the same time share the disk and nothing else *)

MaxRequests == 2
Requests == 1..MaxRequests

ConcIdle ==
    /\ c_pc = [r \in Requests |-> "idle"]
    /\ c_lang = [r \in Requests |-> <<>>]
    /\ c_temp = [r \in Requests |-> NoPath]
    /\ c_exec = [r \in Requests |-> NoPath]
    /\ c_runs = [r \in Requests |-> 0]
    /\ c_ret = [r \in Requests |-> "none"]

\* line 131 and line 144: the suffix of the temp file
SuffixOf(lang) ==
    IF lang = LangPython THEN SuffixPy
    ELSE IF lang = LangC THEN SuffixC ELSE SuffixCpp

\* lines 108-109, 142: the dispatch on the language of a non-blank snippet
ConcEntry(r) ==
    /\ c_pc[r] = "entry"
    /\ c_pc' = [c_pc EXCEPT ![r] = IF Lower(c_lang[r]) = LangPython THEN "py_write"
                                   ELSE "c_write"]
    /\ UNCHANGED <<c_lang, c_temp, c_exec, c_runs, c_ret, fs>>

\* lines 131-134 and 145-148: tempfile creates a file under a name that does
\* not exist yet; creating it or writing to it may raise
ConcWrite(r) ==
    /\ c_pc[r] \in {"py_write", "c_write"}
    /\ \E outcome \in {"create_raises", "write_raises", "ok"} :
         IF outcome = "create_raises" \/ TempPaths(SuffixOf(Lower(c_lang[r]))) = {}
         THEN /\ c_pc' = [c_pc EXCEPT ![r] = "finally_temp"]
              /\ UNCHANGED <<c_temp, fs>>
         ELSE \E p \in TempPaths(SuffixOf(Lower(c_lang[r]))) :
                /\ c_temp' = [c_temp EXCEPT ![r] = p]
                /\ fs' = fs \cup {p}
                /\ c_pc' = [c_pc EXCEPT ![r] =
                              IF outcome = "write_raises" THEN "finally_temp"
                              ELSE IF c_pc[r] = "py_write" THEN "py_run"
                              ELSE "c_named"]
    /\ UNCHANGED <<c_lang, c_exec, c_runs, c_ret>>

\* lines 135-140: the codecarbon tracker is started, which may raise before
\* the script is run; then the script runs once, and subprocess.run may raise
ConcPyRun(r) ==
    /\ c_pc[r] = "py_run"
    /\ c_pc' = [c_pc EXCEPT ![r] = "finally_temp"]
    /\ \E outcome \in {"tracker_raises", "run_raises", "ok"} :
         c_runs' = [c_runs EXCEPT ![r] = IF outcome = "tracker_raises" THEN c_runs[r]
                                         ELSE c_runs[r] + 1]
    /\ UNCHANGED <<c_lang, c_temp, c_exec, c_ret, fs>>

\* line 149: exec_file is named; nothing is on disk under it yet
ConcNameExec(r) ==
    /\ c_pc[r] = "c_named"
    /\ c_exec' = [c_exec EXCEPT ![r] = ExecPath(c_temp[r], SuffixOf(Lower(c_lang[r])))]
    /\ c_pc' = [c_pc EXCEPT ![r] = "c_compile"]
    /\ UNCHANGED <<c_lang, c_temp, c_runs, c_ret, fs>>

\* lines 150-154: gcc ends.  It exits zero having written the binary; or it
\* exits non-zero, either without touching its output path (the compiler
\* proper failed) or having deleted what was there (the link failed); or
\* subprocess.run raises (TimeoutExpired after 120 s, gcc missing), a gcc that
\* is killed leaving a partial output file or none
ConcCompile(r) ==
    /\ c_pc[r] = "c_compile"
    /\ \E outcome \in {"raises", "raises_partial", "nonzero", "nonzero_unlinks",
                       "zero"} :
         /\ fs' = CASE outcome \in {"zero", "raises_partial"} -> fs \cup {c_exec[r]}
                    [] outcome = "nonzero_unlinks" -> fs \ {c_exec[r]}
                    [] OTHER -> fs
         /\ c_pc' = [c_pc EXCEPT ![r] = IF outcome = "zero" THEN "tracking"
                                        ELSE "finally_temp"]
    /\ UNCHANGED <<c_lang, c_temp, c_exec, c_runs, c_ret>>

\* lines 89-99: one iteration of the timing loop on [exec_file], or its end;
\* subprocess.run raises FileNotFoundError when the binary is not on disk, and
\* may raise TimeoutExpired when it is
ConcRun(r) ==
    /\ c_pc[r] = "tracking"
    /\ IF c_runs[r] < DefaultNumRuns
       THEN /\ c_runs' = [c_runs EXCEPT ![r] = c_runs[r] + 1]
            /\ \E raised \in BOOLEAN :
                 c_pc' = [c_pc EXCEPT ![r] =
                            IF raised \/ c_exec[r] \notin fs THEN "finally_temp"
                            ELSE "tracking"]
       ELSE /\ c_pc' = [c_pc EXCEPT ![r] = "finally_temp"]
            /\ UNCHANGED c_runs
    /\ UNCHANGED <<c_lang, c_temp, c_exec, c_ret, fs>>

\* line 161: temp_file and os.path.exists(temp_file)
ConcFinallyTemp(r) ==
    /\ c_pc[r] = "finally_temp"
    /\ c_pc' = [c_pc EXCEPT ![r] = IF c_temp[r] # NoPath /\ c_temp[r] \in fs
                                   THEN "remove_temp" ELSE "finally_exec"]
    /\ UNCHANGED <<c_lang, c_temp, c_exec, c_runs, c_ret, fs>>

\* os.remove(path) at position pc of r, going to next when it succeeds: it
\* raises FileNotFoundError when the path is gone since the check, and may
\* raise another OSError when it is there; nothing catches either, the call
\* ends with the exception
ConcRemove(r, path, next) ==
    \E raises \in BOOLEAN :
      IF raises \/ path \notin fs
      THEN /\ c_pc' = [c_pc EXCEPT ![r] = "done"]
           /\ c_ret' = [c_ret EXCEPT ![r] = "raised"]
           /\ UNCHANGED fs
      ELSE /\ fs' = fs \ {path}
           /\ c_pc' = [c_pc EXCEPT ![r] = next]
           /\ c_ret' = [c_ret EXCEPT ![r] = IF next = "done" THEN "value" ELSE "none"]

\* line 162
ConcRemoveTemp(r) ==
    /\ c_pc[r] = "remove_temp"
    /\ ConcRemove(r, c_temp[r], "finally_exec")
    /\ UNCHANGED <<c_lang, c_temp, c_exec, c_runs>>

\* line 163: exec_file and os.path.exists(exec_file); without a file to
\* remove the call returns
ConcFinallyExec(r) ==
    /\ c_pc[r] = "finally_exec"
    /\ IF c_exec[r] # NoPath /\ c_exec[r] \in fs
       THEN c_pc' = [c_pc EXCEPT ![r] = "remove_exec"] /\ UNCHANGED c_ret
       ELSE /\ c_pc' = [c_pc EXCEPT ![r] = "done"]
            /\ c_ret' = [c_ret EXCEPT ![r] = "value"]
    /\ UNCHANGED <<c_lang, c_temp, c_exec, c_runs, fs>>

\* line 164, then the pending return
ConcRemoveExec(r) ==
    /\ c_pc[r] = "remove_exec"
    /\ ConcRemove(r, c_exec[r], "done")
    /\ UNCHANGED <<c_lang, c_temp, c_exec, c_runs>>

----------------------------------------------------------------------------
(* The endpoints /codegen and /optimize *)

MsgNoPrompt ==
    <<"N","o"," ","p","r","o","m","p","t"," ","p","r","o","v","i","d","e",
      "d">>
MsgNoCode ==
    <<"N","o"," ","c","o","d","e"," ","p","r","o","v","i","d","e","d"," ",
      "f","o","r"," ","o","p","t","i","m","i","z","a","t","i","o","n">>
MsgTokenNotSet ==
    <<"H","u","g","g","i","n","g"," ","F","a","c","e"," ","A","P","I"," ",
      "t","o","k","e","n"," ","n","o","t"," ","s","e","t",".">>
MsgInvalidResponse ==
    <<"I","n","v","a","l","i","d"," ","r","e","s","p","o","n","s","e"," ",
      "f","r","o","m"," ","H","u","g","g","i","n","g"," ","F","a","c","e",
      " ","m","o","d","e","l">>
MsgHubError ==
    <<"H","u","g","g","i","n","g"," ","F","a","c","e"," ","H","u","b"," ",
      "A","P","I"," ","e","r","r","o","r",":"," ">>
MsgUnexpected ==
    <<"A","n"," ","u","n","e","x","p","e","c","t","e","d"," ","e","r","r",
      "o","r"," ","o","c","c","u","r","r","e","d",":"," ">>

NoResponse == [status |-> 0, error |-> <<>>, co2 |-> <<>>]
Error(status, msg) == [status |-> status, error |-> msg, co2 |-> <<>>]
Ok(co2) == [status |-> 200, error |-> <<>>, co2 |-> co2]

ServerIdle ==
    /\ client = "none"
    /\ spc = "idle"
    /\ req = [endpoint |-> "none", body |-> "object", field |-> Absent,
              language |-> Absent]
    /\ language = JStr(<<>>)
    /\ infer = "none"
    /\ llm_co2_kg = Zero
    /\ calls = <<>>
    /\ response = NoResponse
    /\ n_infer = 0

\* a call of run_code_and_track_emissions(code, test_params, language) by a
\* handler: the frame of the call starts afresh
CallHarness(code, params, lang) ==
    /\ hpc' = "entry"
    /\ h_code' = code
    /\ h_params' = params
    /\ h_lang' = lang
    /\ temp_file' = NoPath
    /\ exec_file' = NoPath
    /\ h_pending' = Zero
    /\ h_ret' = NoReturn
    /\ created' = {}
    /\ compiled' = "no"
    /\ h_runs' = 0
    /\ h_fault' = "none"

\* the handler answers and the request is over
Respond(r) ==
    /\ response' = r
    /\ spc' = "responded"

\* The kinds of body a request has, by what lines 174-176 and 217-219 make of
\* them: "object", a JSON object, whose keys data.get reads; "falsy", a JSON
\* null, false, 0, "" or [], in place of which `request.json or {}` gives {};
\* "nondict", any other JSON value (a non-empty array or string, a non-zero
\* number, true), on which data.get raises AttributeError; "invalid", a body
\* that is not JSON, on which request.json raises.
BodyKinds == {"object", "falsy", "nondict", "invalid"}

\* lines 174-176 and 217-219 raise, and the handler's `except Exception`
\* answers 500
BodyRaises(body) == body \in {"nondict", "invalid"}

\* lines 177 and 220: the language given, or else the one detected
LanguageRaises(language_input, code, prompt) ==
    ~Truthy(language_input) /\ DetectRaises(code, prompt)

LanguageOf(language_input, code, prompt) ==
    IF ~Truthy(language_input) THEN JStr(detect_language(code, prompt))
    ELSE language_input

\* what the inference call gives: HfHubHTTPError, another exception, a result
\* without choices or content, or a completion
InferOutcomes == {"hub_error", "exception", "invalid", "valid"}

\* clean_code(result.choices[0].message.content): the cleaned completions the
\* model draws from; clean_code gives "" for an empty or None content
CleanedCodes == {<<>>, <<"x">>}

\* lines 190-199 and 239-248: the inference call's CO2 from its duration
LlmCo2(request_time) == Co2Sample(get_system_wattage(host), request_time)

\* /codegen with the client check ahead of the prompt check
CodegenReceiveClientFirst ==
    /\ spc = "received"
    /\ req.endpoint = "codegen"
    /\ LET prompt == Get(req.field)
           language_input == Get(req.language)
       IN  IF BodyRaises(req.body)
              \/ LanguageRaises(language_input, JStr(<<>>), prompt)
           THEN Respond(Error(500, MsgUnexpected)) /\ UNCHANGED language
           ELSE /\ language' = LanguageOf(language_input, JStr(<<>>), prompt)
                /\ IF client = "none" THEN Respond(Error(500, MsgTokenNotSet))
                   ELSE IF ~Truthy(prompt) THEN Respond(Error(400, MsgNoPrompt))
                   ELSE spc' = "cg_infer" /\ UNCHANGED response
    /\ UNCHANGED <<client, req, infer, llm_co2_kg, calls, n_infer, harness_vars,
                   tracker_vars, env_vars>>

\* lines 174-182
CodegenReceive ==
    /\ spc = "received"
    /\ req.endpoint = "codegen"
    /\ LET prompt == Get(req.field)
           language_input == Get(req.language)
       IN  IF BodyRaises(req.body)
              \/ LanguageRaises(language_input, JStr(<<>>), prompt)
           THEN Respond(Error(500, MsgUnexpected)) /\ UNCHANGED language
           ELSE /\ language' = LanguageOf(language_input, JStr(<<>>), prompt)
                /\ IF ~Truthy(prompt) THEN Respond(Error(400, MsgNoPrompt))
                   ELSE IF client = "none" THEN Respond(Error(500, MsgTokenNotSet))
                   ELSE spc' = "cg_infer" /\ UNCHANGED response
    /\ UNCHANGED <<client, req, infer, llm_co2_kg, calls, n_infer, harness_vars,
                   tracker_vars, env_vars>>

\* lines 184-201
CodegenInfer ==
    /\ spc = "cg_infer"
    /\ \E outcome \in InferOutcomes, request_time \in 1..MaxElapsed,
          code \in CleanedCodes :
         /\ infer' = outcome
         /\ n_infer' = n_infer + 1
         /\ CASE outcome = "hub_error" ->
                   /\ Respond(Error(500, MsgHubError))
                   /\ UNCHANGED <<llm_co2_kg, harness_vars>>
              [] outcome = "exception" ->
                   /\ Respond(Error(500, MsgUnexpected))
                   /\ UNCHANGED <<llm_co2_kg, harness_vars>>
              [] outcome = "invalid" ->
                   /\ Respond(Error(500, MsgInvalidResponse))
                   /\ UNCHANGED <<llm_co2_kg, harness_vars>>
              [] outcome = "valid" ->
                   /\ llm_co2_kg' = LlmCo2(request_time)
                   /\ CallHarness(JStr(code), "empty", language)
                   /\ spc' = "cg_exec"
                   /\ UNCHANGED response
    /\ UNCHANGED <<client, req, language, calls, tracker_vars, env_vars>>

\* what a handler keeps of a harness call that has ended
CallRecord ==
    [fault |-> h_fault, compiled |-> compiled, runs |-> h_runs, ret |-> h_ret]

\* lines 201-212: the harness has ended; an exception it let through reaches
\* the handler's except clause
CodegenRespond ==
    /\ spc = "cg_exec"
    /\ hpc = "done"
    /\ calls' = Append(calls, CallRecord)
    /\ IF h_ret.kind = "raised"
       THEN Respond(Error(500, MsgUnexpected))
       ELSE Respond(Ok(<<llm_co2_kg, h_ret.val, RAdd(llm_co2_kg, h_ret.val)>>))
    /\ UNCHANGED <<client, req, language, infer, llm_co2_kg, n_infer, harness_vars,
                   tracker_vars, env_vars>>

\* /optimize without the check of the client
OptimizeReceiveNoClientCheck ==
    /\ spc = "received"
    /\ req.endpoint = "optimize"
    /\ LET unoptimized_code == Get(req.field)
           language_input == Get(req.language)
       IN  IF BodyRaises(req.body)
              \/ LanguageRaises(language_input, unoptimized_code, JStr(<<>>))
           THEN /\ Respond(Error(500, MsgUnexpected))
                /\ UNCHANGED <<language, harness_vars>>
           ELSE /\ language' = LanguageOf(language_input, unoptimized_code, JStr(<<>>))
                /\ IF ~Truthy(unoptimized_code)
                   THEN Respond(Error(400, MsgNoCode)) /\ UNCHANGED harness_vars
                   ELSE /\ CallHarness(unoptimized_code, "named", language')
                        /\ spc' = "op_before"
                        /\ UNCHANGED response
    /\ UNCHANGED <<client, req, infer, llm_co2_kg, calls, n_infer, tracker_vars,
                   env_vars>>

\* lines 217-228
OptimizeReceive ==
    /\ spc = "received"
    /\ req.endpoint = "optimize"
    /\ LET unoptimized_code == Get(req.field)
           language_input == Get(req.language)
       IN  IF BodyRaises(req.body)
              \/ LanguageRaises(language_input, unoptimized_code, JStr(<<>>))
           THEN /\ Respond(Error(500, MsgUnexpected))
                /\ UNCHANGED <<language, harness_vars>>
           ELSE /\ language' = LanguageOf(language_input, unoptimized_code, JStr(<<>>))
                /\ IF ~Truthy(unoptimized_code)
                   THEN Respond(Error(400, MsgNoCode)) /\ UNCHANGED harness_vars
                   ELSE IF client = "none"
                   THEN Respond(Error(500, MsgTokenNotSet)) /\ UNCHANGED harness_vars
                   ELSE /\ CallHarness(unoptimized_code, "named", language')
                        /\ spc' = "op_before"
                        /\ UNCHANGED response
    /\ UNCHANGED <<client, req, infer, llm_co2_kg, calls, n_infer, tracker_vars,
                   env_vars>>

\* lines 228-250: the first harness call has ended, then the inference call
OptimizeInfer ==
    /\ spc = "op_before"
    /\ hpc = "done"
    /\ calls' = Append(calls, CallRecord)
    /\ IF h_ret.kind = "raised"
       THEN /\ Respond(Error(500, MsgUnexpected))
            /\ UNCHANGED <<infer, n_infer, llm_co2_kg, harness_vars>>
       ELSE \E outcome \in InferOutcomes, request_time \in 1..MaxElapsed,
               code \in CleanedCodes :
              /\ infer' = outcome
              /\ n_infer' = n_infer + 1
              /\ CASE outcome = "hub_error" ->
                        /\ Respond(Error(500, MsgHubError))
                        /\ UNCHANGED <<llm_co2_kg, harness_vars>>
                   [] outcome = "exception" ->
                        /\ Respond(Error(500, MsgUnexpected))
                        /\ UNCHANGED <<llm_co2_kg, harness_vars>>
                   [] outcome = "invalid" ->
                        /\ Respond(Error(500, MsgInvalidResponse))
                        /\ UNCHANGED <<llm_co2_kg, harness_vars>>
                   [] outcome = "valid" ->
                        /\ llm_co2_kg' = LlmCo2(request_time)
                        /\ CallHarness(JStr(code), "named", language)
                        /\ spc' = "op_after"
                        /\ UNCHANGED response
    /\ UNCHANGED <<client, req, language, tracker_vars, env_vars>>

\* lines 250-258
OptimizeRespond ==
    /\ spc = "op_after"
    /\ hpc = "done"
    /\ calls' = Append(calls, CallRecord)
    /\ IF h_ret.kind = "raised"
       THEN Respond(Error(500, MsgUnexpected))
       ELSE Respond(Ok(<<calls[1].ret.val, h_ret.val, llm_co2_kg>>))
    /\ UNCHANGED <<client, req, language, infer, llm_co2_kg, n_infer, harness_vars,
                   tracker_vars, env_vars>>

----------------------------------------------------------------------------
vars == <<detect_vars, env_vars, tracker_vars, harness_vars, server_vars, conc_vars>>

(* SpecTracker: universal_emissions_tracker called with any num_runs *)

TrackerInit ==
    /\ ConcIdle
    /\ DetectIdle
    /\ HarnessIdle
    /\ ServerIdle
    /\ host \in Hosts
    /\ fs = {}
    /\ tpc = "start"
    /\ t_exec = EchoOk
    /\ num_runs \in 0..MaxRuns
    /\ t_watts = <<0, 0, Zero>>
    /\ t_i = 0
    /\ emissions_list = <<>>
    /\ t_elapsed = <<>>
    /\ t_raised = FALSE
    /\ t_ret = Zero

TrackerNext ==
    \/ TrackerStart /\ UNCHANGED <<detect_vars, env_vars, harness_vars, server_vars,
                                   conc_vars>>
    \/ TrackerRun /\ UNCHANGED <<detect_vars, env_vars, harness_vars, server_vars,
                                   conc_vars>>
    \/ TrackerReturn /\ UNCHANGED <<detect_vars, env_vars, harness_vars, server_vars,
                                   conc_vars>>

SpecTracker == TrackerInit /\ [][TrackerNext]_vars

(* SpecHarness: run_code_and_track_emissions called with any arguments *)

HarnessCodes == {<<>>, <<" ">>, <<VerticalTab>>, <<"x">>}
HarnessLangs ==
    {JStr(l) : l \in {LangPython, LangC, LangCpp, LangJava, <<>>,
                      <<"P","y","t","h","o","n">>, <<"C">>, <<"C","P","P">>}}
    \cup {JNone, JNum}

HarnessInit ==
    /\ ConcIdle
    /\ DetectIdle
    /\ TrackerIdle
    /\ ServerIdle
    /\ host \in {h \in Hosts : h.gputil = "absent"}
    /\ fs = {}
    /\ hpc = "entry"
    /\ h_code \in {JStr(c) : c \in HarnessCodes}
    /\ h_params \in {"empty", "named", "none"}
    /\ h_lang \in HarnessLangs
    /\ temp_file = NoPath
    /\ exec_file = NoPath
    /\ h_pending = Zero
    /\ h_ret = NoReturn
    /\ created = {}
    /\ compiled = "no"
    /\ h_runs = 0
    /\ h_fault = "none"

HarnessNext ==
    \/ HarnessEntry /\ UNCHANGED <<detect_vars, server_vars, conc_vars>>
    \/ PyWrite /\ UNCHANGED <<detect_vars, server_vars, conc_vars>>
    \/ PyRun /\ UNCHANGED <<detect_vars, server_vars, conc_vars>>
    \/ CWrite /\ UNCHANGED <<detect_vars, server_vars, conc_vars>>
    \/ CCompile /\ UNCHANGED <<detect_vars, server_vars, conc_vars>>
    \/ HarnessTracked /\ UNCHANGED <<detect_vars, server_vars, conc_vars>>
    \/ FinallyTemp /\ UNCHANGED <<detect_vars, server_vars, conc_vars>>
    \/ FinallyExec /\ UNCHANGED <<detect_vars, server_vars, conc_vars>>
    \/ TrackerStart /\ UNCHANGED <<detect_vars, env_vars, harness_vars, server_vars,
                                   conc_vars>>
    \/ TrackerRun /\ UNCHANGED <<detect_vars, env_vars, harness_vars, server_vars,
                                   conc_vars>>
    \/ TrackerReturn /\ UNCHANGED <<detect_vars, env_vars, harness_vars, server_vars,
                                   conc_vars>>

SpecHarness == HarnessInit /\ [][HarnessNext]_vars

(* SpecDetect *)

DetectNext ==
    DetectLanguage /\ UNCHANGED <<env_vars, tracker_vars, harness_vars, server_vars,
                                   conc_vars>>

DetectSpecInit ==
    /\ ConcIdle
    /\ DetectInit
    /\ host \in {h \in Hosts : h.platform = "Linux" /\ h.cpu_count = 1
                               /\ h.gputil = "absent"}
    /\ fs = {}
    /\ TrackerIdle
    /\ HarnessIdle
    /\ ServerIdle

SpecDetect == DetectSpecInit /\ [][DetectNext]_vars

(* Spec: the backend serving one request to /codegen or /optimize *)

Fields == {Absent, JNone, JNum, JStr(<<>>), JStr(<<" ">>), JStr(<<"x">>),
           JStr(KwInclude)}
Languages == {Absent, JNone, JNum, JStr(<<>>), JStr(LangPython), JStr(LangC),
              JStr(LangCpp), JStr(LangJava)}
\* the requests: those with a JSON object for a body carry any field and any
\* language, the others carry no key at all
Requested ==
    [endpoint : {"codegen", "optimize"}, body : {"object"}, field : Fields,
     language : Languages]
    \cup [endpoint : {"codegen", "optimize"}, body : BodyKinds \ {"object"},
          field : {Absent}, language : {Absent}]
ServerHosts == {h \in Hosts : h.gputil = "absent" /\ h.cpu_count = 1}

Init ==
    /\ ConcIdle
    /\ DetectIdle
    /\ TrackerIdle
    /\ HarnessIdle
    /\ host \in ServerHosts
    /\ fs = {}
    /\ client \in {"set", "none"}
    /\ spc = "received"
    /\ req \in Requested
    /\ language = JStr(<<>>)
    /\ infer = "none"
    /\ llm_co2_kg = Zero
    /\ calls = <<>>
    /\ response = NoResponse
    /\ n_infer = 0

Next ==
    \/ CodegenReceive /\ UNCHANGED <<detect_vars, conc_vars>>
    \/ CodegenInfer /\ UNCHANGED <<detect_vars, conc_vars>>
    \/ CodegenRespond /\ UNCHANGED <<detect_vars, conc_vars>>
    \/ OptimizeReceive /\ UNCHANGED <<detect_vars, conc_vars>>
    \/ OptimizeInfer /\ UNCHANGED <<detect_vars, conc_vars>>
    \/ OptimizeRespond /\ UNCHANGED <<detect_vars, conc_vars>>
    \/ HarnessEntry /\ UNCHANGED <<detect_vars, server_vars, conc_vars>>
    \/ PyWrite /\ UNCHANGED <<detect_vars, server_vars, conc_vars>>
    \/ PyRun /\ UNCHANGED <<detect_vars, server_vars, conc_vars>>
    \/ CWrite /\ UNCHANGED <<detect_vars, server_vars, conc_vars>>
    \/ CCompile /\ UNCHANGED <<detect_vars, server_vars, conc_vars>>
    \/ HarnessTracked /\ UNCHANGED <<detect_vars, server_vars, conc_vars>>
    \/ FinallyTemp /\ UNCHANGED <<detect_vars, server_vars, conc_vars>>
    \/ FinallyExec /\ UNCHANGED <<detect_vars, server_vars, conc_vars>>
    \/ TrackerStart /\ UNCHANGED <<detect_vars, env_vars, harness_vars, server_vars,
                                   conc_vars>>
    \/ TrackerRun /\ UNCHANGED <<detect_vars, env_vars, harness_vars, server_vars,
                                   conc_vars>>
    \/ TrackerReturn /\ UNCHANGED <<detect_vars, env_vars, harness_vars, server_vars,
                                   conc_vars>>

Spec == Init /\ [][Next]_vars

(* SpecConcurrent: the harness calls of requests that are handled at the same
   time, each with a non-blank snippet *)

ConcLangs == {LangPython, LangC, LangCpp, <<"C">>}

ConcInit ==
    /\ DetectIdle
    /\ TrackerIdle
    /\ HarnessIdle
    /\ ServerIdle
    /\ host \in {h \in Hosts : h.platform = "Linux" /\ h.cpu_count = 1
                               /\ h.gputil = "absent"}
    /\ fs = {}
    /\ c_pc = [r \in Requests |-> "entry"]
    /\ c_lang \in [Requests -> ConcLangs]
    /\ c_temp = [r \in Requests |-> NoPath]
    /\ c_exec = [r \in Requests |-> NoPath]
    /\ c_runs = [r \in Requests |-> 0]
    /\ c_ret = [r \in Requests |-> "none"]

ConcFrame == UNCHANGED <<detect_vars, host, tracker_vars, harness_vars, server_vars>>

ConcNext ==
    \/ \E r \in Requests : ConcEntry(r) /\ ConcFrame
    \/ \E r \in Requests : ConcWrite(r) /\ ConcFrame
    \/ \E r \in Requests : ConcPyRun(r) /\ ConcFrame
    \/ \E r \in Requests : ConcNameExec(r) /\ ConcFrame
    \/ \E r \in Requests : ConcCompile(r) /\ ConcFrame
    \/ \E r \in Requests : ConcRun(r) /\ ConcFrame
    \/ \E r \in Requests : ConcFinallyTemp(r) /\ ConcFrame
    \/ \E r \in Requests : ConcRemoveTemp(r) /\ ConcFrame
    \/ \E r \in Requests : ConcFinallyExec(r) /\ ConcFrame
    \/ \E r \in Requests : ConcRemoveExec(r) /\ ConcFrame

SpecConcurrent == ConcInit /\ [][ConcNext]_vars

----------------------------------------------------------------------------
(* Claims about run_code_and_track_emissions, under SpecHarness *)

HarnessDone == hpc = "done"

\* C1: run_code_and_track_emissions ends every call by returning a
\* non-negative number and never lets an exception reach its caller.
C1_NeverRaises ==
    HarnessDone => h_ret.kind = "value" /\ RLeq(Zero, h_ret.val)

\* C2: once a call has ended, no temp source file or binary that the call
\* created is still on disk.
C2_NoTempFileRemains ==
    HarnessDone => created \cap fs = {}

\* the call ran its artifact and nothing failed on the way: the python script
\* was written and run, or the c/cpp source compiled and was timed
RanArtifact ==
    /\ HarnessDone
    /\ h_fault = "none"
    /\ h_ret.kind = "value"
    /\ temp_file # NoPath

\* C4 as stated: every runnable artifact, python script or compiled binary, is
\* executed num_runs (3) times and the result is the mean of the samples.
C4_EveryArtifactRunsNumRunsTimes ==
    RanArtifact =>
        /\ h_runs = DefaultNumRuns
        /\ Len(emissions_list) = DefaultNumRuns
        /\ RMul(h_ret.val, RInt(DefaultNumRuns)) = RSum(emissions_list)

\* C4 amended: whenever the call returns a value, a compiled c/cpp binary has
\* been executed at most 3 times, exactly 3 times with the mean of the three
\* samples returned when no run raised; a python script has been executed at
\* most once, outside the timing loop, which took no sample.
C4_CompiledRunsThreeTimesPythonOnce ==
    (HarnessDone /\ h_ret.kind = "value") =>
        /\ compiled = "ok" =>
             /\ h_runs <= 3
             /\ h_fault = "none" =>
                  /\ h_runs = 3
                  /\ Len(emissions_list) = 3
                  /\ RMul(h_ret.val, RInt(3)) = RSum(emissions_list)
             /\ h_fault # "none" => h_ret.val = Zero
        /\ (IsStr(h_lang) /\ Lower(h_lang.v) = LangPython) =>
             /\ h_runs <= 1
             /\ tpc = "idle"
             /\ emissions_list = <<>>
             /\ (h_fault = "none" /\ temp_file # NoPath) => h_runs = 1

C4_Witness ==
    /\ RanArtifact
    /\ compiled = "ok"
    /\ h_runs = 3
    /\ Len(emissions_list) = 3
    /\ emissions_list[1] # emissions_list[2]

\* C5: when the compiler exits non-zero, the call returns exactly 0.0, raises
\* nothing and never enters the timing loop.
C5_CompileFailureGivesZero ==
    (HarnessDone /\ compiled = "failed") =>
        /\ h_ret = Returned(Zero)
        /\ tpc = "idle"
        /\ h_runs = 0

----------------------------------------------------------------------------
(* Claims about universal_emissions_tracker, under SpecTracker *)

TrackerDone == tpc = "done"

\* C3 as stated: the result is 0.0 exactly when no run produced a sample, and
\* otherwise the mean of the samples that were produced.
C3_MeanOfTheSamplesProduced ==
    TrackerDone =>
        /\ t_ret = Zero <=> emissions_list = <<>>
        /\ emissions_list # <<>> =>
             RMul(t_ret, RInt(Len(emissions_list))) = RSum(emissions_list)

\* C3 amended: the result is 0.0 when any run raised (the samples taken before
\* it are dropped) or when num_runs is 0; otherwise all num_runs runs gave a
\* sample and the result is their mean.
C3_ZeroWhenAnyRunRaised ==
    TrackerDone =>
        IF t_raised \/ num_runs = 0
        THEN t_ret = Zero
        ELSE /\ Len(emissions_list) = num_runs
             /\ RMul(t_ret, RInt(num_runs)) = RSum(emissions_list)

C3_Witness ==
    /\ TrackerDone
    /\ t_raised
    /\ Len(emissions_list) = 2
    /\ t_ret = Zero

\* the power profile's total watts
TotalWatts(w) == RAdd(RInt(w[2] * w[1]), w[3])

\* the estimate of a call whose runs all return, from the elapsed times
Estimate(w, elapsed) ==
    TrackerResult([i \in 1..Len(elapsed) |-> Co2Sample(w, elapsed[i])])

\* C10: each sample is (cpu_power_w * cpu_count + gpu_power_w) * elapsed / 3600
\* * 0.475; with equal elapsed times t the estimate is the single-run value
\* for t; the estimate does not decrease when the watts or an elapsed time
\* grow; doubling every elapsed time doubles it.
C10_SampleFormula ==
    TrackerDone =>
        /\ \A i \in 1..Len(emissions_list) :
             RMul(emissions_list[i], RInt(SecondsPerHour * 40)) =
                 RMul(TotalWatts(t_watts), RInt(t_elapsed[i] * 19))
        /\ (~t_raised /\ num_runs > 0) =>
             /\ (\A i \in 1..num_runs : t_elapsed[i] = t_elapsed[1]) =>
                    t_ret = Co2Sample(t_watts, t_elapsed[1])
             /\ \A i \in 1..num_runs, t2 \in 1..MaxElapsed :
                    t_elapsed[i] <= t2 =>
                        /\ RLeq(t_ret, Estimate(t_watts, [t_elapsed EXCEPT ![i] = t2]))
                        /\ t_elapsed[i] < t2 =>
                             RLess(t_ret, Estimate(t_watts, [t_elapsed EXCEPT ![i] = t2]))
             /\ \A h2 \in Hosts :
                    RLeq(TotalWatts(t_watts), TotalWatts(get_system_wattage(h2))) =>
                        RLeq(t_ret, Estimate(get_system_wattage(h2), t_elapsed))
             /\ Estimate(t_watts, [i \in 1..num_runs |-> 2 * t_elapsed[i]]) =
                    RMul(RInt(2), t_ret)

C10_Witness ==
    /\ TrackerDone
    /\ ~t_raised
    /\ num_runs = 3
    /\ t_elapsed = <<2, 2, 2>>
    /\ t_watts[1] = 2
    /\ t_watts[3] = <<1, 2>>
    /\ t_ret = Co2Sample(t_watts, 2)

----------------------------------------------------------------------------
(* Claims about detect_language, under SpecDetect *)

\* the first branch of a precedence list whose keyword set matches the
\* lower-cased input: c, then java, then javascript, then sql, else python
FirstMatch(code, c_keywords) ==
    LET l == Lower(code)
        hit(kws) == \E kw \in kws : Contains(l, kw)
    IN  IF hit(c_keywords) THEN LangC
        ELSE IF hit({KwPublicClass}) THEN LangJava
        ELSE IF hit({KwConsoleLog, KwFunction}) THEN LangJavascript
        ELSE IF hit({KwSelect, KwFrom, KwWhere}) THEN LangSql
        ELSE LangPython

\* C9 as stated: "c" is chosen by `#include` or `int main` alone.
C9_PrecedenceAsStated ==
    dl_result # <<>> => dl_result = FirstMatch(dl_code, {KwInclude, KwIntMain})

\* C9 amended: the result is the first matching branch of: `#include`,
\* `int main` or `printf` gives "c"; else `public class` gives "java"; else
\* `console.log` or `function` gives "javascript"; else select, from or where
\* gives "sql"; else "python"; the keywords are looked for in the lower-cased
\* input.
C9_PrecedenceWithPrintf ==
    dl_result # <<>> =>
        dl_result = FirstMatch(dl_code, {KwInclude, KwIntMain, KwPrintf})

C9_Witness ==
    /\ dl_result = LangC
    /\ Contains(dl_code, KwPrintf)
    /\ Contains(dl_code, KwFunction)
    /\ ~Contains(Lower(dl_code), KwInclude)
    /\ ~Contains(Lower(dl_code), KwIntMain)

----------------------------------------------------------------------------
(* Claims about the endpoints, under Spec *)

Responded == spc = "responded"

\* the required field (prompt or code) is a non-empty text
InputPresent == IsStr(req.field) /\ req.field.v # <<>>

\* the required field is missing from the body or is the empty string
InputMissing == req.field \in {Absent, JStr(<<>>)}

\* the harness failures a handler may meet: a compile that fails or raises, a
\* subprocess run that raises (timeout), a failed write of the temp file
HarnessFaults == {"compile_failed", "compile_raised", "run_raises", "loop_raised",
                  "tracker_raises", "create", "write", "language", "test_params"}

TokenNotSet ==
    <<"t","o","k","e","n"," ","n","o","t"," ","s","e","t">>

\* C6: with the input present, the client configured and a valid completion,
\* the request answers 200 whatever happens in the execution harness, and the
\* estimate of each harness call that failed is 0.0.
C6_HarnessFailureNeverAnHttpError ==
    (Responded /\ InputPresent /\ client = "set" /\ infer = "valid") =>
        /\ response.status = 200
        /\ \A i \in 1..Len(calls) :
             calls[i].fault \in HarnessFaults => calls[i].ret = Returned(Zero)

\* the missing-input answer of the endpoint, before any inference or harness
\* call
MissingInputAnswer ==
    /\ response.status = 400
    /\ response.error = IF req.endpoint = "codegen" THEN MsgNoPrompt ELSE MsgNoCode
    /\ calls = <<>>
    /\ infer = "none"

\* C7 as stated: a request whose required field is missing or empty is
\* answered 400, with the endpoint's message, whether or not the client is
\* configured and whatever the language field holds.
C7_MissingInputIs400 ==
    (Responded /\ InputMissing) => MissingInputAnswer

\* C7 amended: a request whose body is a JSON object (or a falsy JSON value,
\* read as {}) and whose required field is missing or empty is answered 400,
\* with the endpoint's message, whether or not the client is configured and
\* whatever the language field holds; a body that is another JSON value or is
\* not JSON has no field either and is answered 500, whatever the client.
C7_MissingInputInObjectIs400 ==
    (Responded /\ InputMissing) =>
        IF BodyRaises(req.body)
        THEN /\ response = Error(500, MsgUnexpected)
             /\ calls = <<>>
             /\ infer = "none"
        ELSE MissingInputAnswer

C7_Witness ==
    /\ Responded
    /\ req.endpoint = "optimize"
    /\ req.body = "object"
    /\ req.field = JStr(<<>>)
    /\ req.language = JNum
    /\ client = "none"
    /\ response = Error(400, MsgNoCode)

\* C8: with the client unset and the input present, both endpoints answer 500
\* with an error that contains "token not set"; a failed inference call is
\* answered 500 as well.
C8_ClientUnsetIs500 ==
    Responded =>
        /\ (client = "none" /\ InputPresent) =>
             /\ response.status = 500
             /\ Contains(response.error, TokenNotSet)
             /\ calls = <<>>
        /\ infer \in {"hub_error", "exception", "invalid"} => response.status = 500

C8_Witness ==
    /\ Responded
    /\ req.endpoint = "codegen"
    /\ req.field = JStr(<<"x">>)
    /\ req.language = JStr(LangPython)
    /\ client = "none"
    /\ response = Error(500, MsgTokenNotSet)

----------------------------------------------------------------------------
(* The resources of a request, under Spec *)

\* the compilations the harness calls cs have made
RECURSIVE CompilationsOf(_)
CompilationsOf(cs) ==
    IF cs = <<>> THEN 0
    ELSE (IF cs[1].compiled = "no" THEN 0 ELSE 1) + CompilationsOf(Tail(cs))

\* the executions of the snippet the harness calls cs have made
RECURSIVE ExecutionsOf(_)
ExecutionsOf(cs) ==
    IF cs = <<>> THEN 0 ELSE cs[1].runs + ExecutionsOf(Tail(cs))

Compilations == CompilationsOf(calls)
Executions == ExecutionsOf(calls)

\* the most the request's subprocesses can have blocked it, by their timeouts
BlockingBound == Executions * RunTimeout + Compilations * CompileTimeout

\* C12 as stated: every request to /codegen or /optimize makes at most one
\* inference call, at most one compilation and at most num_runs (3) executions
\* of the snippet, so its subprocesses block it for at most 3 * 300 + 120 s.
C12_OneHarnessCallPerRequest ==
    Responded =>
        /\ n_infer <= 1
        /\ Compilations <= 1
        /\ Executions <= 3
        /\ BlockingBound <= 3 * 300 + 120

\* C12 amended: every request makes at most one inference call, and each
\* harness call at most one compilation and 3 executions; /codegen makes one
\* harness call (at most 3 * 300 + 120 s), /optimize two, before and after the
\* inference call: at most 2 compilations, 6 executions and
\* 2 * (3 * 300 + 120) s.
C12_TwoHarnessCallsForOptimize ==
    Responded =>
        /\ n_infer <= 1
        /\ \A i \in 1..Len(calls) :
             /\ calls[i].runs <= 3
             /\ CompilationsOf(<<calls[i]>>) <= 1
        /\ req.endpoint = "codegen" =>
             /\ Len(calls) <= 1
             /\ Compilations <= 1
             /\ Executions <= 3
             /\ BlockingBound <= 3 * 300 + 120
        /\ req.endpoint = "optimize" =>
             /\ Len(calls) <= 2
             /\ Compilations <= 2
             /\ Executions <= 6
             /\ BlockingBound <= 2 * (3 * 300 + 120)

C12_Witness ==
    /\ Responded
    /\ req.endpoint = "optimize"
    /\ n_infer = 1
    /\ Compilations = 2
    /\ Executions = 6
    /\ response.status = 200

----------------------------------------------------------------------------
(* Claims about concurrent requests, under SpecConcurrent *)

\* the request's harness call is under way
InFlight(r) == c_pc[r] \notin {"idle", "entry", "done"}

\* the paths the harness call of r has still to write, compile to, execute or
\* delete: its source file until line 162 has removed it, its binary from
\* line 149 until line 164 has removed it
PathsOf(r) ==
    LET source == IF c_pc[r] \in {"py_run", "c_named", "c_compile", "tracking",
                                  "finally_temp", "remove_temp"}
                  THEN {c_temp[r]} ELSE {}
        binary == IF c_pc[r] \in {"c_compile", "tracking", "finally_temp",
                                  "remove_temp", "finally_exec", "remove_exec"}
                  THEN {c_exec[r]} ELSE {}
    IN  (source \cup binary) \ {NoPath}

\* C11: no two in-flight requests share a source path or a binary path.
C11_PathsUniquePerRequest ==
    \A r1, r2 \in Requests :
        (r1 # r2 /\ InFlight(r1) /\ InFlight(r2)) => PathsOf(r1) \cap PathsOf(r2) = {}

====
